---- MODULE Spec2Model ----
(***************************************************************************)
(* The visualization classes of airplane-flight-edu (js/main.js and        *)
(* js/visualizations/*.js) as a state machine.                             *)
(*                                                                         *)
(* One simulator object is under observation in a behaviour: Init picks    *)
(* its class (kind) and whether document.getElementById found its canvas.  *)
(* The object is the record `this`: its fields are the JavaScript own      *)
(* properties, so a property that was never assigned is a field the record *)
(* does not have (reading it gives undefined).                             *)
(*                                                                         *)
(* Numbers: times are integer milliseconds (performance.now()), lengths    *)
(* are integer pixels, and a product with a decimal factor f is computed   *)
(* as (value * 100f) divided by 100, truncating toward zero.               *)
(* window.devicePixelRatio is 1, so pixelWidth = this.width.               *)
(***************************************************************************)
EXTENDS Integers, Sequences, FiniteSets, TLC

VARIABLES
  kind,         \* class of the object under observation
  this,         \* the object: a record of its own properties
  now,          \* performance.now(), ms
  pending,      \* handles of the frame callbacks requested and not yet run or cancelled
  requestedAt,  \* time of the latest requestAnimationFrame call
  call,         \* what the latest handler executed did (observation)
  stopped,      \* stop()/destroy() has returned and start() was not called since
  advances,     \* number of autoplay phase advances so far
  calls,        \* number of calls the page has made on the object
  playButton    \* textContent of the play button of the page

vars == <<kind, this, now, pending, requestedAt, call, stopped,
          advances, calls, playButton>>

(***************************************************************************)
(* Bounds of the model                                                     *)
(***************************************************************************)
MaxTicks == 3          \* clock ticks in a behaviour of Spec
MaxCalls == 3          \* calls made by the page in a behaviour of Spec
TicksPerPhase == 2     \* clock ticks per phaseDuration
AutoMaxTicks == 16     \* clock ticks in a behaviour of SpecAuto
MaxLateTicks == 1      \* clock ticks a frame of SpecLive can be late for an advance
canvasWidth == 800     \* canvas.width of the page's canvases
canvasHeight == 400    \* canvas.height

Kinds == {"intro", "bernoulli", "forces", "airfoil", "controls", "phases"}
LoopKinds == Kinds \ {"controls"}

(***************************************************************************)
(* JavaScript values                                                       *)
(***************************************************************************)
NaN == 0 - 1000000     \* the number NaN (no arithmetic is done on it)
NullPhase == "<null>"  \* null, what getAttribute gives for a missing data-phase

Has(o, f) == f \in DOMAIN o
Put(o, f, v) == [g \in (DOMAIN o) \cup {f} |-> IF g = f THEN v ELSE o[g]]
\* truthiness of a boolean property that may be undefined
Truthy(o, f) == Has(o, f) /\ o[f] = TRUE
\* truthiness of a handle property (undefined and null are falsy; handles are > 0)
TruthyHandle(o, f) == Has(o, f) /\ o[f] # 0

TDiv(a, b) == IF a >= 0 THEN a \div b ELSE 0 - ((0 - a) \div b)
Pct(v, p) == TDiv(v * p, 100)
Min(a, b) == IF a < b THEN a ELSE b
Max(a, b) == IF a > b THEN a ELSE b

\* arithmetic on numbers that may be NaN; an undefined operand makes NaN
Num(o, f) == IF Has(o, f) THEN o[f] ELSE NaN
IsNaN(a) == a = NaN
NAdd(a, b) == IF IsNaN(a) \/ IsNaN(b) THEN NaN ELSE a + b
NSub(a, b) == IF IsNaN(a) \/ IsNaN(b) THEN NaN ELSE a - b
NMul(a, b) == IF IsNaN(a) \/ IsNaN(b) THEN NaN ELSE a * b
NDiv(a, b) == IF IsNaN(a) \/ IsNaN(b) THEN NaN ELSE TDiv(a, b)
NMin(a, b) == IF IsNaN(a) \/ IsNaN(b) THEN NaN ELSE Min(a, b)
NMax(a, b) == IF IsNaN(a) \/ IsNaN(b) THEN NaN ELSE Max(a, b)


(***************************************************************************)
(* Execution of one handler.  A handler runs on a context m: the object,   *)
(* the browser's pending frame callbacks, and what the handler has done so *)
(* far.  When a statement throws, m.threw becomes TRUE and the rest of the *)
(* handler is skipped; the assignments made before the throw stay.         *)
(***************************************************************************)
\* F applied to the value of v: the statements F of a handler run on the context
\* that the statements before them have left
With(v, F(_)) == CHOOSE r \in {F(x) : x \in {v}} : TRUE

Enter(o, p) ==
  [this |-> o, pending |-> p, updates |-> 0, draws |-> 0, threw |-> FALSE,
   deltaTime |-> 0 - 1, ret |-> FALSE, advanced |-> FALSE, started |-> FALSE,
   raf |-> FALSE]

PixelWidth(o) == Num(o, "width")
PixelHeight(o) == Num(o, "height")

\* the flag each class calls isRunning, and FlightPhasesVisualization isPlaying
RunFlag == IF kind = "phases" THEN "isPlaying" ELSE "isRunning"

(***************************************************************************)
(* FlightPhasesVisualization                                               *)
(***************************************************************************)
phaseSequence == <<"takeoff", "climb", "cruise", "descent", "landing">>
phaseDuration == 3000
Phases == {phaseSequence[i] : i \in 1..Len(phaseSequence)}

PhasesResetDimensions(o) ==
  [o EXCEPT !.groundLevel = PixelHeight(o) - 80,
            !.runwayStart = 50,
            !.runwayEnd = PixelWidth(o) - 50]

\* setPhase, first statements: currentPhase, phaseProgress, phaseStartTime
beginPhase(m, phase, t) ==
  [m EXCEPT !.this = Put(Put(Put(@, "currentPhase", phase), "phaseProgress", 0),
                         "phaseStartTime", t)]

\* setPhase, the switch: the target pose of the phase; no case for another value
retarget(m0, phase) ==
  With(m0, LAMBDA m :
    IF ~Has(m.this, "airplane")
    THEN [m EXCEPT !.threw = TRUE]  \* this.airplane is undefined
    ELSE
      [m EXCEPT !.this.airplane =
         CASE phase = "takeoff" ->
                [@ EXCEPT !.targetX = Pct(PixelWidth(m.this), 20),
                          !.targetY = m.this.groundLevel - 20,
                          !.targetRotation = 0,
                          !.targetVelocity = 60]
           [] phase = "climb" ->
                [@ EXCEPT !.targetX = Pct(PixelWidth(m.this), 35),
                          !.targetY = Pct(PixelHeight(m.this), 40),
                          !.targetRotation = 0 - 15,
                          !.targetVelocity = 70]
           [] phase = "cruise" ->
                [@ EXCEPT !.targetX = Pct(PixelWidth(m.this), 50),
                          !.targetY = Pct(PixelHeight(m.this), 30),
                          !.targetRotation = 0,
                          !.targetVelocity = 80]
           [] phase = "descent" ->
                [@ EXCEPT !.targetX = Pct(PixelWidth(m.this), 65),
                          !.targetY = Pct(PixelHeight(m.this), 50),
                          !.targetRotation = 5,
                          !.targetVelocity = 65]
           [] phase = "landing" ->
                [@ EXCEPT !.targetX = Pct(PixelWidth(m.this), 80),
                          !.targetY = m.this.groundLevel - 20,
                          !.targetRotation = 3,
                          !.targetVelocity = 50]
           [] OTHER -> @])

\* setPhase, last statement: on the first call the pose is set to the target
snapIfFirst(m0) ==
  With(m0, LAMBDA m :
    IF m.threw THEN m
    ELSE LET a == m.this.airplane
         IN IF a.x = 0 /\ a.y = 0
            THEN [m EXCEPT !.this.airplane =
                    [a EXCEPT !.x = a.targetX, !.y = a.targetY,
                              !.rotation = a.targetRotation,
                              !.velocity = a.targetVelocity]]
            ELSE m)

\* a setPhase that leaves the target pose as it is
setPhaseStale(m, phase, t) == snapIfFirst(beginPhase(m, phase, t))

setPhase(m, phase, t) == snapIfFirst(retarget(beginPhase(m, phase, t), phase))

FlightPhasesVisualization(hasCanvas, t) ==
  IF ~hasCanvas
  THEN [canvas |-> FALSE]
  ELSE
    LET o == [canvas |-> TRUE, ctx |-> TRUE,
              width |-> canvasWidth, height |-> canvasHeight,
              isPlaying |-> FALSE, animationFrame |-> 0, lastTime |-> 0,
              currentPhase |-> "cruise", phaseProgress |-> 0,
              airplane |-> [x |-> 0, y |-> 0, rotation |-> 0,
                            targetX |-> 0, targetY |-> 0, targetRotation |-> 0,
                            velocity |-> 0, targetVelocity |-> 0],
              groundLevel |-> 0, runwayStart |-> 0, runwayEnd |-> 0,
              autoPlayEnabled |-> FALSE,
              phaseSequence |-> phaseSequence,
              currentPhaseIndex |-> 2,
              phaseDuration |-> phaseDuration,
              phaseStartTime |-> 0]
    IN setPhase(Enter(PhasesResetDimensions(o), {}), "cruise", t).this

\* an autoplay that always goes back to the first phase
firstPhase(o) == o.phaseSequence[1]

\* an autoplay that stays on the phase of currentPhaseIndex
samePhase(o) == o.phaseSequence[o.currentPhaseIndex + 1]

\* the phase autoplay moves to: phaseSequence[(currentPhaseIndex + 1) % length]
\* (JavaScript arrays start at 0, sequences at 1)
nextPhase(o) == o.phaseSequence[((o.currentPhaseIndex + 1) % Len(o.phaseSequence)) + 1]

\* update, the autoplay branch: advance when phaseDuration has elapsed
advance(m, t) ==
  IF t - m.this.phaseStartTime >= m.this.phaseDuration
  THEN setPhase([m EXCEPT !.this.currentPhaseIndex = (@ + 1) % Len(m.this.phaseSequence),
                          !.advanced = TRUE],
                nextPhase(m.this), t)
  ELSE m

\* update, the autoplay branch: phaseProgress, kept in thousandths
progress(m0, t) ==
  With(m0, LAMBDA m :
    IF m.threw THEN m
    ELSE [m EXCEPT !.this.phaseProgress =
            Min(TDiv((t - m.this.phaseStartTime) * 1000, m.this.phaseDuration), 1000)])

\* on an object without phaseDuration the comparison with undefined is false and
\* the progress is NaN
autoPlay(m, t) ==
  IF ~Truthy(m.this, "autoPlayEnabled") THEN m
  ELSE IF ~Has(m.this, "phaseDuration")
  THEN [m EXCEPT !.this = Put(@, "phaseProgress", NaN)]
  ELSE progress(advance(m, t), t)

\* update, the smoothing of the pose toward the target (factor 0.05)
smooth(m0) ==
  With(m0, LAMBDA m :
    IF m.threw THEN m
    ELSE IF ~Has(m.this, "airplane")
    THEN [m EXCEPT !.threw = TRUE]  \* this.airplane is undefined
    ELSE
      [m EXCEPT !.this.airplane =
         [@ EXCEPT !.x = @ + Pct(m.this.airplane.targetX - @, 5),
                   !.y = @ + Pct(m.this.airplane.targetY - @, 5),
                   !.rotation = @ + Pct(m.this.airplane.targetRotation - @, 5),
                   !.velocity = @ + Pct(m.this.airplane.targetVelocity - @, 5)],
               !.updates = @ + 1])

PhasesUpdate(m, t) == smooth(autoPlay(m, t))

(***************************************************************************)
(* IntroVisualization.  this.time is kept in ms, forceAlpha in thousandths *)
(***************************************************************************)
IntroResetDimensions(o) ==
  LET gl == PixelHeight(o) - 60
  IN [o EXCEPT !.groundLevel = gl,
               !.airplane = [@ EXCEPT !.x = Pct(PixelWidth(o), 20), !.y = gl - 15]]

IntroVisualization(hasCanvas) ==
  IF ~hasCanvas
  THEN [canvas |-> FALSE]
  ELSE IntroResetDimensions(
         [canvas |-> TRUE, ctx |-> TRUE,
          width |-> canvasWidth, height |-> canvasHeight,
          isRunning |-> FALSE, animationFrame |-> 0, lastTime |-> 0, time |-> 0,
          airplane |-> [x |-> 0, y |-> 0, rotation |-> 0, onGround |-> TRUE],
          groundLevel |-> 0, forceAlpha |-> 0])

loopDuration == 6000

\* update: this.time += deltaTime
introTime(m) ==
  [m EXCEPT !.this = Put(@, "time", NAdd(Num(@, "time"), m.deltaTime))]

\* update: the four phases of the loop (0-30 %, 30-50 %, 50-85 %, 85-100 %)
introPose(m, tm) ==
  IF ~Has(m.this, "airplane")
  THEN [m EXCEPT !.threw = TRUE]  \* this.airplane is undefined
  ELSE
    [m EXCEPT
       !.updates = @ + 1,
       !.this.airplane =
         IF tm * 10 < 3 * loopDuration
         THEN [x |-> TDiv(PixelWidth(m.this) * (15 * 1800 + 15 * tm), 100 * 1800),
               y |-> m.this.groundLevel - 15, rotation |-> 0, onGround |-> TRUE]
         ELSE IF tm * 10 < 5 * loopDuration
         THEN [x |-> TDiv(PixelWidth(m.this) * (30 * 1200 + 10 * (tm - 1800)), 100 * 1200),
               y |-> m.this.groundLevel - 15 - TDiv(40 * (tm - 1800), 1200),
               rotation |-> 0 - TDiv(12 * (tm - 1800), 1200),
               onGround |-> FALSE]
         ELSE IF tm * 100 < 85 * loopDuration
         THEN [x |-> TDiv(PixelWidth(m.this) * (40 * 2100 + 30 * (tm - 3000)), 100 * 2100),
               y |-> m.this.groundLevel - 55 - TDiv(80 * (tm - 3000), 2100),
               rotation |-> 0 - 10, onGround |-> FALSE]
         ELSE [x |-> TDiv(PixelWidth(m.this) * (70 * 900 + 20 * (tm - 5100)), 100 * 900),
               y |-> m.this.groundLevel - 135,
               rotation |-> 0 - 5, onGround |-> FALSE],
       !.this.forceAlpha =
         IF tm * 10 < 3 * loopDuration THEN Min(TDiv(2 * tm * 1000, 1800), 1000)
         ELSE IF tm * 100 < 85 * loopDuration THEN 1000
         ELSE 1000 - TDiv((tm - 5100) * 1000, 900)]

introLoop(m) == introPose(m, m.this.time % loopDuration)

IntroUpdate(m) == introLoop(introTime(m))

(***************************************************************************)
(* AirfoilVisualization.  this.time is kept in ms, the angle of attack in   *)
(* thousandths of a degree, the coefficients in millionths.                *)
(***************************************************************************)
\* options.f || d, for a number (0 is falsy) and for a string ('' is falsy)
OrDefault(options, f, d) ==
  IF Has(options, f) /\ options[f] # 0 THEN options[f] ELSE d
OrDefaultString(options, f, d) ==
  IF Has(options, f) /\ options[f] # "" THEN options[f] ELSE d

streamlineCount == 8

\* Math.random() * 100 of createStreamlines; the eight draws are taken equal
AirfoilCreateStreamlines(o, rnd) ==
  LET spacing == TDiv(PixelHeight(o), o.streamlineCount + 1)
  IN [o EXCEPT !.streamlines =
        [i \in 1..o.streamlineCount |-> [y |-> spacing * i, offset |-> rnd]]]

AirfoilResetPosition(o) ==
  [o EXCEPT !.centerX = TDiv(PixelWidth(o), 2), !.centerY = TDiv(PixelHeight(o), 2)]

AirfoilVisualization(hasCanvas, options, rnd) ==
  IF ~hasCanvas
  THEN [canvas |-> FALSE]
  ELSE AirfoilCreateStreamlines(AirfoilResetPosition(
         [canvas |-> TRUE, ctx |-> TRUE,
          width |-> canvasWidth, height |-> canvasHeight,
          angleOfAttack |-> OrDefault(options, "angleOfAttack", 5000),
          airfoilType |-> OrDefaultString(options, "airfoilType", "cambered"),
          airspeed |-> 50, chordLength |-> 200, centerX |-> 0, centerY |-> 0,
          streamlines |-> <<>>, streamlineCount |-> streamlineCount,
          isRunning |-> FALSE, animationFrame |-> 0, time |-> 0]), rnd)

AirfoilUpdate(m) ==
  [m EXCEPT !.this = Put(@, "time", NAdd(Num(@, "time"), m.deltaTime)),
            !.updates = @ + 1]

\* a stall that takes away up to 80% of the peak: maxCL - reduction * 0.8 * maxCL
stallByShare(maxCL, reduction) ==
  maxCL - TDiv(TDiv(maxCL, 1000) * TDiv(reduction, 1000) * 8, 10)

\* the stall region: maxCL - (reduction * 0.8)
stall(maxCL, reduction) == maxCL - TDiv(reduction * 8, 10)

\* a calculateLiftCoefficient without the offset of the cambered airfoil
liftWithoutCamber(o) ==
  LET alpha == Num(o, "angleOfAttack")
  IN IF IsNaN(alpha) THEN 500000
     ELSE IF alpha < 0 - 10000 THEN 0 - 500000
     ELSE IF alpha <= 15000 THEN 100 * alpha
     ELSE IF alpha <= 20000 THEN stall(1500000, TDiv((alpha - 15000) * 1000, 5))
     ELSE 500000

\* calculateLiftCoefficient, in millionths; every comparison with an undefined
\* angle is false, which leads to the last branch
calculateLiftCoefficient(o) ==
  LET alpha == Num(o, "angleOfAttack")
      baseOffset == IF Has(o, "airfoilType") /\ o.airfoilType = "cambered" THEN 200000 ELSE 0
      stallAngle == 15000
  IN IF IsNaN(alpha) THEN 500000
     ELSE IF alpha < 0 - 10000 THEN 0 - 500000
     ELSE IF alpha >= 0 - 10000 /\ alpha <= stallAngle THEN baseOffset + 100 * alpha
     ELSE IF alpha > stallAngle /\ alpha <= 20000
     THEN stall(baseOffset + 100 * stallAngle, TDiv((alpha - stallAngle) * 1000, 5))
     ELSE 500000

\* calculateDragCoefficient, in millionths: CD0 + CL^2 / (pi * 6) + stallDrag
calculateDragCoefficient(o) ==
  LET CL == TDiv(calculateLiftCoefficient(o), 1000)
      alpha == Num(o, "angleOfAttack")
      CD0 == 20000
      CDi == TDiv(CL * CL * 100, 1885)
      stallDrag == IF ~IsNaN(alpha) /\ (alpha > 15000 \/ alpha < 0 - 15000) THEN 300000 ELSE 0
  IN CD0 + CDi + stallDrag

(***************************************************************************)
(* ForcesVisualization.  Positions are kept in thousandths of a pixel,     *)
(* velocities in thousandths of a pixel per second, planeRotation in       *)
(* millionths of a radian.                                                 *)
(***************************************************************************)
\* a resetPlanePosition that leaves the velocities
resetPlanePositionOnly(o) ==
  Put(Put(Put(o, "planeX", NDiv(NMul(PixelWidth(o), 1000), 2)),
          "planeY", NDiv(NMul(PixelHeight(o), 1000), 2)), "planeRotation", 0)

resetPlanePosition(o) ==
  LET o1 == Put(o, "planeX", NDiv(NMul(PixelWidth(o), 1000), 2))
      o2 == Put(o1, "planeY", NDiv(NMul(PixelHeight(o), 1000), 2))
      o3 == Put(o2, "planeRotation", 0)
      o4 == Put(o3, "verticalVelocity", 0)
  IN Put(o4, "horizontalVelocity", 0)

ForcesVisualization(hasCanvas, options, t) ==
  IF ~hasCanvas
  THEN [canvas |-> FALSE]
  ELSE resetPlanePosition(
         [canvas |-> TRUE, ctx |-> TRUE,
          width |-> canvasWidth, height |-> canvasHeight,
          lift |-> OrDefault(options, "lift", 50),
          weight |-> OrDefault(options, "weight", 50),
          thrust |-> OrDefault(options, "thrust", 50),
          drag |-> OrDefault(options, "drag", 50),
          planeX |-> 0, planeY |-> 0, planeRotation |-> 0,
          verticalVelocity |-> 0, horizontalVelocity |-> 0,
          isRunning |-> FALSE, animationFrame |-> 0, lastTime |-> t,
          maxArrowLength |-> 100])

padding == 100

\* an update without damping
undamped(v) == v

\* this.verticalVelocity *= 0.95; this.horizontalVelocity *= 0.95
damp(v) == NDiv(NMul(v, 95), 100)

ForcesUpdate(m) ==
  LET o == m.this
      deltaTime == m.deltaTime
      netVertical == NSub(Num(o, "lift"), Num(o, "weight"))
      netHorizontal == NSub(Num(o, "thrust"), Num(o, "drag"))
      \* += net * 0.5 * deltaTime, then *= 0.95
      vv == damp(NAdd(Num(o, "verticalVelocity"),
                      NDiv(NMul(netVertical, 5 * deltaTime), 10)))
      hv == damp(NAdd(Num(o, "horizontalVelocity"),
                      NDiv(NMul(netHorizontal, 5 * deltaTime), 10)))
      y1 == NSub(Num(o, "planeY"), NDiv(NMul(vv, deltaTime), 1000))
      x1 == NAdd(Num(o, "planeX"), NDiv(NMul(hv, deltaTime), 1000))
      x2 == NMax(padding * 1000,
                 NMin(NMul(NSub(PixelWidth(o), padding), 1000), x1))
      y2 == NMax(padding * 1000,
                 NMin(NMul(NSub(PixelHeight(o), padding), 1000), y1))
      targetRotation == NMul(netVertical, 0 - 3000)
      rot == NAdd(Num(o, "planeRotation"),
                  NDiv(NSub(targetRotation, Num(o, "planeRotation")), 10))
      o1 == Put(Put(o, "verticalVelocity", vv), "horizontalVelocity", hv)
      o2 == Put(Put(o1, "planeY", y2), "planeX", x2)
  IN [m EXCEPT !.this = Put(o2, "planeRotation", rot), !.updates = @ + 1]


(***************************************************************************)
(* BernoulliVisualization.  The tube geometry fractions are kept in        *)
(* hundredths, particle positions in pixels; getTubeHeightAt, getVelocityAt *)
(* and getPressureAt take a position in hundredths of a pixel.             *)
(***************************************************************************)
getTubeHeightAt(o, x) ==
  LET pw == PixelWidth(o)
      ph == PixelHeight(o)
  IN IF IsNaN(x) \/ IsNaN(pw) \/ IsNaN(ph)
     THEN [top |-> NaN, bottom |-> NaN]
     ELSE IF x < o.throatStart * pw
     THEN [top |-> TDiv(ph * (o.tubeTop * o.throatStart * pw
                              + (o.throatTop - o.tubeTop) * x),
                        100 * o.throatStart * pw),
           bottom |-> TDiv(ph * (o.tubeBottom * o.throatStart * pw
                                 - (o.tubeBottom - o.throatBottom) * x),
                           100 * o.throatStart * pw)]
     ELSE IF x >= o.throatStart * pw /\ x <= o.throatEnd * pw
     THEN [top |-> Pct(ph, o.throatTop), bottom |-> Pct(ph, o.throatBottom)]
     ELSE [top |-> TDiv(ph * (o.throatTop * (100 - o.throatEnd) * pw
                              + (o.tubeTop - o.throatTop) * (x - o.throatEnd * pw)),
                        100 * (100 - o.throatEnd) * pw),
           bottom |-> TDiv(ph * (o.throatBottom * (100 - o.throatEnd) * pw
                                 + (o.tubeBottom - o.throatBottom)
                                   * (x - o.throatEnd * pw)),
                           100 * (100 - o.throatEnd) * pw)]

\* a getVelocityAt that ignores the height of the channel
getBaseVelocityAt(o, x) == NMul(Num(o, "baseVelocity"), 100)

\* getVelocityAt: baseVelocity * (entranceHeight / currentHeight), in hundredths
\* of a metre per second
getVelocityAt(o, x) ==
  LET entranceHeight == NDiv(NMul(PixelHeight(o), NSub(Num(o, "tubeBottom"), Num(o, "tubeTop"))), 100)
      tube == getTubeHeightAt(o, x)
      currentHeight == NSub(tube.bottom, tube.top)
  IN IF currentHeight = 0 THEN NaN
     ELSE NDiv(NMul(NMul(Num(o, "baseVelocity"), 100), entranceHeight), currentHeight)

\* air that has no dynamic pressure
noDynamicPressure(o, velocity) == 0

\* 0.5 * this.AIR_DENSITY * Math.pow(velocity, 2), in hundredths of a pascal
\* (velocity in hundredths, AIR_DENSITY in thousandths)
dynamicPressure(o, velocity) ==
  NDiv(NMul(NDiv(NMul(velocity, velocity), 1000), Num(o, "AIR_DENSITY")), 200)

totalPressure(o) ==
  NAdd(NMul(Num(o, "ATMOSPHERIC_PRESSURE"), 100),
       dynamicPressure(o, NMul(Num(o, "baseVelocity"), 100)))

\* a getPressureAt that returns the total pressure
getTotalPressureAt(o, x) == totalPressure(o)

\* getPressureAt: totalPressure - 0.5 * rho * velocity^2, in hundredths of a pascal
getPressureAt(o, x) ==
  NSub(totalPressure(o), dynamicPressure(o, getVelocityAt(o, x)))

\* rnds[i] holds the three Math.random() draws of particle i, in hundredths
createParticles(o, rnds) ==
  [o EXCEPT !.particles =
     [i \in 1..o.particleCount |->
        LET x == Pct(PixelWidth(o), rnds[i].x)
            tube == getTubeHeightAt(o, x * 100)
            y == tube.top + Pct(tube.bottom - tube.top, rnds[i].y)
        IN [x |-> x, y |-> y, baseY |-> y, speed |-> o.baseVelocity, size |-> 25,
            opacity |-> 500 + 5 * rnds[i].opacity]]]

BernoulliVisualization(hasCanvas, options, rnds, t) ==
  IF ~hasCanvas
  THEN [canvas |-> FALSE]
  ELSE createParticles(
         [canvas |-> TRUE, ctx |-> TRUE,
          width |-> canvasWidth, height |-> canvasHeight,
          AIR_DENSITY |-> 1225, ATMOSPHERIC_PRESSURE |-> 101325,
          baseVelocity |-> OrDefault(options, "baseVelocity", 50),
          particleCount |-> OrDefault(options, "particleCount", 150),
          tubeTop |-> 30, tubeBottom |-> 70, throatTop |-> 40, throatBottom |-> 60,
          throatStart |-> 35, throatEnd |-> 65,
          isRunning |-> FALSE, animationFrame |-> 0, particles |-> <<>>,
          lastTime |-> t], rnds)

\* a particle that is not moved back when it exits
noWrap(x, pw) == x

\* if (particle.x > pixelWidth) particle.x = 0; no comparison with NaN is true
wrap(x, pw) == IF ~IsNaN(x) /\ x > pw THEN 0 ELSE x

\* one iteration of the forEach of update(); rnd is the Math.random() draw of the wrap
UpdateParticle(o, particle, deltaTime, rnd) ==
  LET pw == PixelWidth(o)
      ph == PixelHeight(o)
      entranceHeight == Pct(ph, o.tubeBottom - o.tubeTop)
      here == getTubeHeightAt(o, NMul(particle.x, 100))
      \* (localVelocity / baseVelocity) * 150 * deltaTime; 0 / 0 is NaN
      step == IF o.baseVelocity = 0 \/ IsNaN(particle.x) THEN NaN
              ELSE TDiv(150 * entranceHeight * deltaTime,
                        (here.bottom - here.top) * 1000)
      x1 == NAdd(particle.x, step)
      wrapped == ~IsNaN(x1) /\ x1 > pw
      x2 == wrap(x1, pw)
      entry == getTubeHeightAt(o, 0)
      yRandom == IF wrapped
                 THEN entry.top + Pct(entry.bottom - entry.top, rnd)
                 ELSE particle.y
      tube == getTubeHeightAt(o, NMul(x2, 100))
      tubeHeight == NSub(tube.bottom, tube.top)
      centerY == NDiv(NAdd(tube.top, tube.bottom), 2)
      \* offset - 0.5, as the fraction num / den
      num == 2 * (100 * particle.baseY - ph * o.tubeTop) - ph * (o.tubeBottom - o.tubeTop)
      den == 2 * ph * (o.tubeBottom - o.tubeTop)
      y2 == NAdd(centerY, NDiv(NMul(tubeHeight, num * 8), den * 10))
      p1 == [particle EXCEPT !.x = x2, !.y = yRandom]
  IN [p1 EXCEPT !.y = y2]

BernoulliUpdate(m, rnd) ==
  IF ~Has(m.this, "particles")
  THEN [m EXCEPT !.threw = TRUE]  \* this.particles is undefined
  ELSE [m EXCEPT !.this.particles =
           [i \in 1..Len(@) |-> UpdateParticle(m.this, @[i], m.deltaTime, rnd)],
                 !.updates = @ + 1]

(***************************************************************************)
(* ControlSurfacesVisualization.  rollAngle, pitchAngle and yawAngle are   *)
(* kept in tenths of a degree.                                             *)
(***************************************************************************)
ControlsResetPosition(o) ==
  [o EXCEPT !.centerX = TDiv(PixelWidth(o), 2), !.centerY = TDiv(PixelHeight(o), 2)]

ControlSurfacesVisualization(hasCanvas, options) ==
  IF ~hasCanvas
  THEN [canvas |-> FALSE]
  ELSE ControlsResetPosition(
         [canvas |-> TRUE, ctx |-> TRUE,
          width |-> canvasWidth, height |-> canvasHeight,
          aileronDeflection |-> OrDefault(options, "aileronDeflection", 0),
          elevatorDeflection |-> OrDefault(options, "elevatorDeflection", 0),
          rudderDeflection |-> OrDefault(options, "rudderDeflection", 0),
          centerX |-> 0, centerY |-> 0,
          rollAngle |-> 0, pitchAngle |-> 0, yawAngle |-> 0])

(***************************************************************************)
(* draw(), update() and the frame loop shared by the classes               *)
(***************************************************************************)
\* A step of a handler is skipped when an earlier step of it threw.
\* draw() paints the canvas and changes no property; it throws when this.ctx is
\* undefined, and FlightPhasesVisualization.drawPhaseInfo throws on a null phase
draw(m0) ==
  With(m0, LAMBDA m :
    IF m.threw THEN m
    ELSE IF ~Has(m.this, "ctx") THEN [m EXCEPT !.threw = TRUE]
    ELSE IF kind = "phases" /\ m.this.currentPhase = NullPhase
    THEN [m EXCEPT !.threw = TRUE]
    ELSE [m EXCEPT !.draws = @ + 1])

\* update(deltaTime), with deltaTime = m.deltaTime
update(m0, t, rnd) ==
  With(m0, LAMBDA m :
    IF m.threw THEN m
    ELSE CASE kind = "phases" -> PhasesUpdate(m, t)
           [] kind = "intro" -> IntroUpdate(m)
           [] kind = "airfoil" -> AirfoilUpdate(m)
           [] kind = "forces" -> ForcesUpdate(m)
           [] kind = "bernoulli" -> BernoulliUpdate(m, rnd))

\* handles are only stored, tested and cancelled, so the browser's fresh handle is
\* taken to be the least one not in use
freshHandle(used) ==
  CHOOSE i \in 1..(Cardinality(used) + 1) : i \notin used /\ \A j \in 1..(i - 1) : j \in used

\* this.animationFrame = requestAnimationFrame(() => this.animate())
requestAnimationFrame(m0) ==
  With(m0, LAMBDA m :
    IF m.threw THEN m
    ELSE [m EXCEPT
            !.pending = @ \cup {freshHandle(@ \cup {Num(m.this, "animationFrame")})},
            !.this = Put(@, "animationFrame",
                         freshHandle(m.pending \cup {Num(m.this, "animationFrame")})),
            !.raf = TRUE])

\* a cancelAnimationFrame that cancels nothing
cancelNothing(p, h) == p

cancelAnimationFrame(p, h) == p \ {h}

\* animate: deltaTime = currentTime - this.lastTime; this.lastTime = currentTime
elapsed(m, t) ==
  [m EXCEPT !.deltaTime = t - m.this.lastTime, !.this.lastTime = t]

\* an animate that draws without updating
animateWithoutUpdate(m, t, rnd) ==
  IF ~Truthy(m.this, RunFlag) THEN m
  ELSE requestAnimationFrame(draw(elapsed(m, t)))

animate(m, t, rnd) ==
  IF ~Truthy(m.this, RunFlag) THEN m
  ELSE requestAnimationFrame(draw(update(elapsed(m, t), t, rnd)))

\* a start that keeps the lastTime the object has
runningStale(m, t) ==
  [m EXCEPT !.this = IF Has(@, "lastTime") THEN Put(@, RunFlag, TRUE)
                     ELSE Put(Put(@, RunFlag, TRUE), "lastTime", t),
            !.started = TRUE]

\* start, the statements before this.animate()
running(m, t) ==
  [m EXCEPT !.this = IF kind = "intro"
                     THEN Put(Put(Put(@, RunFlag, TRUE), "lastTime", t), "time", 0)
                     ELSE Put(Put(@, RunFlag, TRUE), "lastTime", t),
            !.started = TRUE]

\* a start without the test of the running flag
startUnguarded(m, t, rnd) == animate(running(m, t), t, rnd)

start(m, t, rnd) ==
  IF Truthy(m.this, RunFlag) THEN m ELSE animate(running(m, t), t, rnd)

\* stop: if (this.animationFrame) cancelAnimationFrame(this.animationFrame);
\* FlightPhasesVisualization and IntroVisualization also set the handle to null
cancelFrame(m) ==
  IF ~TruthyHandle(m.this, "animationFrame") THEN m
  ELSE [m EXCEPT !.pending = cancelAnimationFrame(@, m.this.animationFrame),
                 !.this.animationFrame = IF kind \in {"phases", "intro"} THEN 0 ELSE @]

\* a stop that leaves the requested frame callback
stopFlagOnly(m) == [m EXCEPT !.this = Put(@, RunFlag, FALSE)]

\* a stop that also switches autoplay off
stopAutoPlay(m) ==
  cancelFrame([m EXCEPT !.this = Put(Put(@, RunFlag, FALSE), "autoPlayEnabled", FALSE)])

stop(m) == cancelFrame([m EXCEPT !.this = Put(@, RunFlag, FALSE)])

destroy(m) ==
  CASE kind = "controls" -> m
    [] kind = "bernoulli" -> [stop(m) EXCEPT !.this = Put(@, "particles", <<>>)]
    [] OTHER -> stop(m)

\* toggleAutoPlay: return this.autoPlayEnabled
returnEnabled(m) == IF m.threw THEN m ELSE [m EXCEPT !.ret = m.this.autoPlayEnabled]

toggleAutoPlay(m, t, rnd) ==
  returnEnabled(
    IF ~Truthy(m.this, "autoPlayEnabled")
    THEN start([m EXCEPT !.this = Put(Put(@, "autoPlayEnabled", TRUE), "phaseStartTime", t)],
               t, rnd)
    ELSE [m EXCEPT !.this = Put(@, "autoPlayEnabled", FALSE)])

\* the tail of the mutators: if (!this.isRunning) this.draw()
DrawIfIdle(m) == IF Truthy(m.this, RunFlag) THEN m ELSE draw(m)

setVelocity(m, velocity) == DrawIfIdle([m EXCEPT !.this = Put(@, "baseVelocity", velocity)])

setAngleOfAttack(m, angle) == DrawIfIdle([m EXCEPT !.this = Put(@, "angleOfAttack", angle)])

setAirfoilType(m, type) == DrawIfIdle([m EXCEPT !.this = Put(@, "airfoilType", type)])

setForces(m, lift, weight, thrust, drag) ==
  DrawIfIdle([m EXCEPT !.this =
     Put(Put(Put(Put(@, "lift", lift), "weight", weight), "thrust", thrust), "drag", drag)])

reset(m) ==
  DrawIfIdle([m EXCEPT !.this =
     resetPlanePosition(Put(Put(Put(Put(@, "lift", 50), "weight", 50), "thrust", 50),
                            "drag", 50))])

\* a setControls whose roll indicator has the sign of the aileron
setControlsUnsigned(m, aileron, elevator, rudder) ==
  draw([m EXCEPT !.this =
     Put(Put(Put(Put(Put(Put(@, "aileronDeflection", aileron),
                             "elevatorDeflection", elevator),
                         "rudderDeflection", rudder),
                     "rollAngle", aileron * 8),
                 "pitchAngle", (0 - elevator) * 5),
             "yawAngle", rudder * 6)])

setControls(m, aileron, elevator, rudder) ==
  draw([m EXCEPT !.this =
     Put(Put(Put(Put(Put(Put(@, "aileronDeflection", aileron),
                             "elevatorDeflection", elevator),
                         "rudderDeflection", rudder),
                     "rollAngle", (0 - aileron) * 8),
                 "pitchAngle", (0 - elevator) * 5),
             "yawAngle", rudder * 6)])

ControlsReset(m) ==
  draw([m EXCEPT !.this =
     Put(Put(Put(Put(Put(Put(@, "aileronDeflection", 0), "elevatorDeflection", 0),
                         "rudderDeflection", 0),
                     "rollAngle", 0), "pitchAngle", 0), "yawAngle", 0)])

(***************************************************************************)
(* Inputs                                                                  *)
(***************************************************************************)
Randoms == {10, 90}                     \* Math.random(), in hundredths
Velocities == {0, 50, 100}              \* airspeed slider
Angles == {0 - 12000, 5000, 18000}      \* angle slider, in thousandths of a degree
AirfoilTypes == {"symmetric", "flat", "biconvex"}
ForceInputs == {<<50, 50, 50, 50>>, <<80, 40, 50, 50>>, <<50, 50, 30, 70>>}
ControlInputs == {<<0, 0, 0>>, <<10, 0, 0>>, <<0, 0 - 5, 15>>}
PhaseArgs == Phases \cup {"taxi", NullPhase}

\* the options App.initializeVisualizations passes (with one particle instead of
\* 150), and no options
BernoulliOptions == {[baseVelocity |-> 50, particleCount |-> 1]}
ForcesOptions == {[lift |-> 50, weight |-> 50, thrust |-> 50, drag |-> 50], [x \in {} |-> 0]}
AirfoilOptions == {[angleOfAttack |-> 5000, airfoilType |-> "cambered"], [x \in {} |-> 0]}
ControlsOptions == {[aileronDeflection |-> 0, elevatorDeflection |-> 0,
                     rudderDeflection |-> 0]}

TickMs == phaseDuration \div TicksPerPhase

(***************************************************************************)
(* The state machine                                                       *)
(***************************************************************************)
Constructed(k, hasCanvas, t) ==
  CASE k = "phases" -> {FlightPhasesVisualization(hasCanvas, t)}
    [] k = "intro" -> {IntroVisualization(hasCanvas)}
    [] k = "airfoil" ->
         {AirfoilVisualization(hasCanvas, o, r) : o \in AirfoilOptions, r \in Randoms}
    [] k = "forces" -> {ForcesVisualization(hasCanvas, o, t) : o \in ForcesOptions}
    [] k = "controls" -> {ControlSurfacesVisualization(hasCanvas, o) : o \in ControlsOptions}
    [] k = "bernoulli" ->
         {BernoulliVisualization(hasCanvas, o, <<r>>, t) :
            o \in BernoulliOptions,
            r \in [x : Randoms, y : Randoms, opacity : Randoms]}

\* what is recorded of a handler: its name and argument, whether the loop was
\* idle and whether the object was stopped when it was called, whether the
\* handler executed before it was the same one, and what it did
Observed(op, arg, idle, wasStopped, again, m) ==
  [op |-> op, arg |-> arg, idle |-> idle, wasStopped |-> wasStopped, again |-> again,
   updates |-> m.updates, draws |-> m.draws, threw |-> m.threw,
   deltaTime |-> m.deltaTime, ret |-> m.ret]

Init ==
  /\ kind \in Kinds
  /\ now = 0
  /\ \E hasCanvas \in BOOLEAN : this \in Constructed(kind, hasCanvas, now)
  /\ pending = {}
  /\ requestedAt = 0
  /\ call = Observed("constructor", "", TRUE, FALSE, FALSE, Enter(this, {}))
  /\ stopped = FALSE
  /\ advances = 0
  /\ calls = 0
  /\ playButton = "Play Animation"

\* the text of the play button after the handler: the click listeners of the
\* page set it, unless the call they make first has thrown
textContent(m, op) ==
  IF m.threw THEN playButton
  ELSE IF op = "clickPlay"
  THEN (IF m.ret THEN "Stop Auto-Play" ELSE "Play Animation")
  ELSE IF op = "clickPause" THEN "Play Animation"
  ELSE playButton

\* the handler `op` ran and ended in context m
Commit(m, op, arg) ==
  /\ this' = m.this
  /\ pending' = m.pending
  /\ requestedAt' = IF m.raf THEN now ELSE requestedAt
  /\ call' = Observed(op, arg, ~Truthy(this, RunFlag), stopped, call.op = op, m)
  /\ stopped' = IF op \in {"stop", "destroy"} THEN TRUE
                ELSE IF m.started THEN FALSE ELSE stopped
  /\ advances' = advances + (IF m.advanced THEN 1 ELSE 0)
  /\ playButton' = textContent(m, op)
  /\ UNCHANGED <<kind, now>>

\* the page calls a method of the object
Called(m, op, arg) ==
  /\ calls < MaxCalls
  /\ calls' = calls + 1
  /\ Commit(m, op, arg)

Start ==
  /\ kind \in LoopKinds
  /\ \E rnd \in Randoms : Called(start(Enter(this, pending), now, rnd), "start", "")

Stop ==
  /\ kind \in LoopKinds
  /\ Called(stop(Enter(this, pending)), "stop", "")

Destroy == Called(destroy(Enter(this, pending)), "destroy", "")

\* the browser runs a requested frame callback: () => this.animate()
Frame ==
  /\ now > requestedAt
  /\ \E h \in pending, rnd \in Randoms :
       /\ Commit(animate(Enter(this, pending \ {h}), now, rnd), "animate", "")
       /\ UNCHANGED calls

SetPhase ==
  /\ kind = "phases"
  /\ \E phase \in PhaseArgs : Called(setPhase(Enter(this, pending), phase, now), "setPhase", phase)

ToggleAutoPlay ==
  /\ kind = "phases"
  /\ \E rnd \in Randoms :
       Called(toggleAutoPlay(Enter(this, pending), now, rnd), "toggleAutoPlay", "")

SetVelocity ==
  /\ kind = "bernoulli"
  /\ \E v \in Velocities : Called(setVelocity(Enter(this, pending), v), "setVelocity", "")

SetAngleOfAttack ==
  /\ kind = "airfoil"
  /\ \E a \in Angles : Called(setAngleOfAttack(Enter(this, pending), a), "setAngleOfAttack", "")

SetAirfoilType ==
  /\ kind = "airfoil"
  /\ \E ty \in AirfoilTypes :
       Called(setAirfoilType(Enter(this, pending), ty), "setAirfoilType", "")

SetForces ==
  /\ kind = "forces"
  /\ \E f \in ForceInputs :
       Called(setForces(Enter(this, pending), f[1], f[2], f[3], f[4]), "setForces", "")

Reset ==
  /\ kind = "forces"
  /\ Called(reset(Enter(this, pending)), "reset", "")

SetControls ==
  /\ kind = "controls"
  /\ \E c \in ControlInputs :
       Called(setControls(Enter(this, pending), c[1], c[2], c[3]), "setControls", c)

ResetControls ==
  /\ kind = "controls"
  /\ Called(ControlsReset(Enter(this, pending)), "ControlsReset", "")

Tick ==
  /\ now < MaxTicks * TickMs
  /\ now' = now + TickMs
  /\ UNCHANGED <<kind, this, pending, requestedAt, call, stopped, advances, calls, playButton>>

Next ==
  \/ Start \/ Stop \/ Destroy \/ Frame \/ Tick
  \/ SetPhase \/ ToggleAutoPlay
  \/ SetVelocity \/ SetAngleOfAttack \/ SetAirfoilType
  \/ SetForces \/ Reset \/ SetControls \/ ResetControls

Spec == Init /\ [][Next]_vars

(***************************************************************************)
(* Autoplay left alone: a FlightPhasesVisualization on which the page has  *)
(* called toggleAutoPlay() once, at time 0, and nothing afterwards.  The   *)
(* browser runs the frame callbacks, on time or late.                      *)
(***************************************************************************)
AutoPlaying(t) ==
  toggleAutoPlay(Enter(FlightPhasesVisualization(TRUE, t), {}), t, 10)

InitFrom(m) ==
  /\ this = m.this
  /\ pending = m.pending
  /\ call = Observed("toggleAutoPlay", "", TRUE, FALSE, FALSE, m)

InitAuto ==
  /\ kind = "phases"
  /\ now = 0
  /\ InitFrom(AutoPlaying(now))
  /\ requestedAt = 0
  /\ stopped = FALSE
  /\ advances = 0
  /\ calls = 1
  /\ playButton = "Play Animation"

TickAuto ==
  /\ now < AutoMaxTicks * TickMs
  /\ now' = now + TickMs
  /\ UNCHANGED <<kind, this, pending, requestedAt, call, stopped, advances, calls, playButton>>

NextAuto == Frame \/ TickAuto

SpecAuto == InitAuto /\ [][NextAuto]_vars

(***************************************************************************)
(* Autoplay left alone, for ever.  The code uses the clock only through    *)
(* the differences currentTime - lastTime and currentTime - phaseStartTime,*)
(* so after each frame the origin of the clock is moved to phaseStartTime: *)
(* the times stay bounded while the behaviour goes on.  advances is kept   *)
(* modulo the length of the cycle.  The browser delivers every requested   *)
(* frame and the clock goes on (weak fairness): there is a frame at every  *)
(* tick, except that the frame of an advance can be up to MaxLateTicks     *)
(* ticks late.                                                             *)
(***************************************************************************)
CommitLive(m, origin) ==
  /\ this' = [m.this EXCEPT !.phaseStartTime = @ - origin, !.lastTime = @ - origin]
  /\ now' = now - origin
  /\ requestedAt' = (IF m.raf THEN now ELSE requestedAt) - origin
  /\ pending' = m.pending
  /\ call' = Observed("animate", "", FALSE, stopped, call.op = "animate", m)
  /\ advances' = (advances + (IF m.advanced THEN 1 ELSE 0)) % Len(phaseSequence)
  /\ UNCHANGED <<kind, stopped, calls, playButton>>

FrameLive ==
  /\ now > requestedAt
  /\ \E h \in pending :
       \E m \in {animate(Enter(this, pending \ {h}), now, 10)} :
          CommitLive(m, m.this.phaseStartTime)

TickLive ==
  /\ \/ now = requestedAt
     \/ /\ now - this.phaseStartTime >= phaseDuration
        /\ now - this.phaseStartTime < phaseDuration + MaxLateTicks * TickMs
  /\ now' = now + TickMs
  /\ UNCHANGED <<kind, this, pending, requestedAt, call, stopped, advances, calls, playButton>>

NextLive == FrameLive \/ TickLive

SpecLive == InitAuto /\ [][NextLive]_vars /\ WF_vars(FrameLive) /\ WF_vars(TickLive)

(***************************************************************************)
(* A constant net force: a ForcesVisualization on which the page has called *)
(* setForces(NetForce, 0, 50, 50) and start() at time 0, and nothing        *)
(* afterwards.  The browser runs a frame callback every FrameMs.            *)
(***************************************************************************)
FrameMs == 16
NetForce == 100
MaxSteps == 10000

Forced(t) ==
  start(setForces(Enter(ForcesVisualization(TRUE, [x \in {} |-> 0], t), {}),
                  NetForce, 0, 50, 50), t, 10)

InitDamping ==
  /\ kind = "forces"
  /\ now = 0
  /\ \E m \in {Forced(now)} :
       /\ this = m.this
       /\ pending = m.pending
       /\ call = Observed("start", "", TRUE, FALSE, FALSE, m)
  /\ requestedAt = 0
  /\ stopped = FALSE
  /\ advances = 0
  /\ calls = 2
  /\ playButton = "Play Animation"

TickDamping ==
  /\ now = requestedAt
  /\ now < MaxSteps * FrameMs
  /\ now' = now + FrameMs
  /\ UNCHANGED <<kind, this, pending, requestedAt, call, stopped, advances, calls, playButton>>

NextDamping == Frame \/ TickDamping

SpecDamping == InitDamping /\ [][NextDamping]_vars

(***************************************************************************)
(* The forces simulator on canvases of several sizes: the constructor reads *)
(* canvas.width and canvas.height, whatever they are.                       *)
(***************************************************************************)
SmallCanvas == 150

CanvasSizes == {<<canvasWidth, canvasHeight>>, <<canvasWidth, SmallCanvas>>,
                <<SmallCanvas, SmallCanvas>>}

ForcesOn(size, options, t) ==
  resetPlanePosition([ForcesVisualization(TRUE, options, t)
                        EXCEPT !.width = size[1], !.height = size[2]])

InitForces ==
  /\ kind = "forces"
  /\ now = 0
  /\ this \in {ForcesOn(size, o, now) : size \in CanvasSizes, o \in ForcesOptions}
  /\ pending = {}
  /\ requestedAt = 0
  /\ call = Observed("constructor", "", TRUE, FALSE, FALSE, Enter(this, {}))
  /\ stopped = FALSE
  /\ advances = 0
  /\ calls = 0
  /\ playButton = "Play Animation"

NextForces == Start \/ SetForces \/ Reset \/ Frame \/ Tick

SpecForces == InitForces /\ [][NextForces]_vars

(***************************************************************************)
(* The duct: a BernoulliVisualization whose reference speed the page sets   *)
(* and whose getVelocityAt and getPressureAt are called at positions along  *)
(* the duct, given in hundredths of the width.                              *)
(***************************************************************************)
Positions == {0, 15, 25, 50, 75, 85, 100}

At(o, f) == NMul(f, PixelWidth(o))

InitTube ==
  /\ kind = "bernoulli"
  /\ now = 0
  /\ this \in Constructed(kind, TRUE, now)
  /\ pending = {}
  /\ requestedAt = 0
  /\ call = Observed("constructor", "", TRUE, FALSE, FALSE, Enter(this, {}))
  /\ stopped = FALSE
  /\ advances = 0
  /\ calls = 0
  /\ playButton = "Play Animation"

GetVelocityAt ==
  /\ kind = "bernoulli"
  /\ \E f \in Positions :
       Called([Enter(this, pending) EXCEPT !.ret = getVelocityAt(this, At(this, f))],
              "getVelocityAt", f)

GetPressureAt ==
  /\ kind = "bernoulli"
  /\ \E f \in Positions :
       Called([Enter(this, pending) EXCEPT !.ret = getPressureAt(this, At(this, f))],
              "getPressureAt", f)

NextTube == SetVelocity \/ GetVelocityAt \/ GetPressureAt

SpecTube == InitTube /\ [][NextTube]_vars

(***************************************************************************)
(* The coefficients: an AirfoilVisualization whose angle of attack and      *)
(* airfoil type the page sets, also to angles next to the breakpoints of    *)
(* the lift curve, and whose coefficients are calculated.                   *)
(***************************************************************************)
Breakpoints == {0 - 10000, 15000, 20000}
BreakAngles == {b + d : b \in Breakpoints, d \in {0 - 1, 0, 1}} \cup {0}

InitAirfoil ==
  /\ kind = "airfoil"
  /\ now = 0
  /\ this \in Constructed(kind, TRUE, now)
  /\ pending = {}
  /\ requestedAt = 0
  /\ call = Observed("constructor", "", TRUE, FALSE, FALSE, Enter(this, {}))
  /\ stopped = FALSE
  /\ advances = 0
  /\ calls = 0
  /\ playButton = "Play Animation"

SetAngleAtBreak ==
  /\ kind = "airfoil"
  /\ \E a \in BreakAngles :
       Called(setAngleOfAttack(Enter(this, pending), a), "setAngleOfAttack", a)

CalculateLiftCoefficient ==
  /\ kind = "airfoil"
  /\ Called([Enter(this, pending) EXCEPT !.ret = calculateLiftCoefficient(this)],
            "calculateLiftCoefficient", "")

CalculateDragCoefficient ==
  /\ kind = "airfoil"
  /\ Called([Enter(this, pending) EXCEPT !.ret = calculateDragCoefficient(this)],
            "calculateDragCoefficient", "")

NextAirfoil ==
  \/ SetAngleOfAttack \/ SetAngleAtBreak \/ SetAirfoilType
  \/ CalculateLiftCoefficient \/ CalculateDragCoefficient

SpecAirfoil == InitAirfoil /\ [][NextAirfoil]_vars

(***************************************************************************)
(* Construction with options: a simulator constructed with some, none or   *)
(* all of its options supplied, a supplied 0 included, and run afterwards.  *)
(***************************************************************************)
OptionKinds == {"bernoulli", "forces", "airfoil"}

Supplied(k) ==
  CASE k = "bernoulli" ->
         {[baseVelocity |-> 100, particleCount |-> 2], [baseVelocity |-> 0, particleCount |-> 2],
          [particleCount |-> 1], [baseVelocity |-> 100]}
    [] k = "forces" ->
         {[lift |-> 80, weight |-> 40, thrust |-> 50, drag |-> 50],
          [lift |-> 80, weight |-> 0, thrust |-> 50, drag |-> 50],
          [lift |-> 80], [x \in {} |-> 0]}
    [] k = "airfoil" ->
         {[angleOfAttack |-> 18000, airfoilType |-> "symmetric"],
          [angleOfAttack |-> 0, airfoilType |-> "symmetric"],
          [airfoilType |-> "flat"], [x \in {} |-> 0]}

ConstructedWith(k, options, t) ==
  CASE k = "bernoulli" ->
         BernoulliVisualization(TRUE, options,
           [i \in 1..OrDefault(options, "particleCount", 150) |->
              [x |-> 10, y |-> 90, opacity |-> 10]], t)
    [] k = "forces" -> ForcesVisualization(TRUE, options, t)
    [] k = "airfoil" -> AirfoilVisualization(TRUE, options, 10)

InitOptions ==
  /\ kind \in OptionKinds
  /\ now = 0
  /\ \E options \in Supplied(kind) :
       /\ this = ConstructedWith(kind, options, now)
       /\ call = Observed("constructor", options, TRUE, FALSE, FALSE, Enter(this, {}))
  /\ pending = {}
  /\ requestedAt = 0
  /\ stopped = FALSE
  /\ advances = 0
  /\ calls = 0
  /\ playButton = "Play Animation"

NextOptions == Start \/ Stop \/ Frame \/ Tick

SpecOptions == InitOptions /\ [][NextOptions]_vars

(***************************************************************************)
(* Autoplay paused: a FlightPhasesVisualization on which the page has       *)
(* called toggleAutoPlay() and then stop() at time 0, so that the active    *)
(* phase has been running for no time at all; start() or stop() may be      *)
(* called later.                                                            *)
(***************************************************************************)
Paused(t) == stop(AutoPlaying(t))

InitPause ==
  /\ kind = "phases"
  /\ now = 0
  /\ \E m \in {Paused(now)} :
       /\ this = m.this
       /\ pending = m.pending
       /\ call = Observed("stop", "", FALSE, FALSE, FALSE, m)
  /\ requestedAt = 0
  /\ stopped = TRUE
  /\ advances = 0
  /\ calls = 2
  /\ playButton = "Play Animation"

NextPause == Start \/ Stop \/ Frame \/ TickAuto

SpecPause == InitPause /\ [][NextPause]_vars

(***************************************************************************)
(* The control surfaces: a ControlSurfacesVisualization constructed with    *)
(* deflection options that may differ from 0, and its handlers.             *)
(***************************************************************************)
DeflectionOptions ==
  ControlsOptions \cup
    {[aileronDeflection |-> 10, elevatorDeflection |-> 0, rudderDeflection |-> 0],
     [aileronDeflection |-> 0, elevatorDeflection |-> 0 - 5, rudderDeflection |-> 15],
     [aileronDeflection |-> 20, elevatorDeflection |-> 10, rudderDeflection |-> 0 - 10]}

InitControls ==
  /\ kind = "controls"
  /\ now = 0
  /\ \E hasCanvas \in BOOLEAN :
       this \in {ControlSurfacesVisualization(hasCanvas, o) : o \in DeflectionOptions}
  /\ pending = {}
  /\ requestedAt = 0
  /\ call = Observed("constructor", "", TRUE, FALSE, FALSE, Enter(this, {}))
  /\ stopped = FALSE
  /\ advances = 0
  /\ calls = 0
  /\ playButton = "Play Animation"

NextControls == SetControls \/ ResetControls \/ Destroy

SpecControls == InitControls /\ [][NextControls]_vars

(***************************************************************************)
(* The play and pause buttons of the page, on the FlightPhasesVisualization *)
(* that the page has constructed.                                           *)
(***************************************************************************)
InitButtons ==
  /\ kind = "phases"
  /\ now = 0
  /\ this = FlightPhasesVisualization(TRUE, now)
  /\ pending = {}
  /\ requestedAt = 0
  /\ call = Observed("constructor", "", TRUE, FALSE, FALSE, Enter(this, {}))
  /\ stopped = FALSE
  /\ advances = 0
  /\ calls = 0
  /\ playButton = "Play Animation"

\* playButton click: isPlaying = phases.toggleAutoPlay(), then the text
ClickPlay ==
  /\ kind = "phases"
  /\ \E rnd \in Randoms :
       Called(toggleAutoPlay(Enter(this, pending), now, rnd), "clickPlay", "")

\* pauseButton click: phases.stop(), then the text
ClickPause ==
  /\ kind = "phases"
  /\ Called(stop(Enter(this, pending)), "clickPause", "")

NextButtons == ClickPlay \/ ClickPause \/ Frame \/ Tick

SpecButtons == InitButtons /\ [][NextButtons]_vars

(***************************************************************************)
(* Properties                                                              *)
(***************************************************************************)
Mutators ==
  {"setVelocity", "setForces", "reset", "setAngleOfAttack", "setAirfoilType",
   "setControls", "ControlsReset", "setPhase"}

\* the step is a call of the page, of the method op
IsCall(op) == calls' # calls /\ call'.op = op

\* C1: an object constructed for a surfaceId that matches no element is inert:
\* no handler called on it throws, none schedules a frame callback, and none
\* changes the object (it stays as the constructor left it).
C1_InertObject ==
  ~this.canvas => (~call.threw /\ pending = {} /\ this = [canvas |-> FALSE])

\* C2: a mutator called while the animation loop of its simulator is not
\* running has drawn at least once when it returns.
C2_IdleMutatorDraws ==
  (this.canvas /\ call.op \in Mutators /\ call.idle) => call.draws >= 1

\* C3: once stop() or destroy() has returned, and until the next start(), no
\* frame callback of the simulator is pending, the latest handler executed is
\* not a frame callback, and it ran no update().
C3_StoppedIsQuiet ==
  (kind \in LoopKinds /\ stopped)
    => (pending = {} /\ call.op # "animate" /\ call.updates = 0)

\* the loop was running, a frame was requested and is due, and stop() or
\* destroy() has returned
C3_Witness ==
  /\ kind \in LoopKinds /\ this.canvas /\ stopped
  /\ call.op \in {"stop", "destroy"} /\ ~call.idle
  /\ now > requestedAt

\* C4: a start() that follows a start(), a stop() that follows a stop() and a
\* destroy() that follows a destroy() leave the object and the set of pending
\* frame callbacks as the first call left them.
C4_Idempotent ==
  [][(kind \in LoopKinds /\ call'.again
      /\ (IsCall("start") \/ IsCall("stop") \/ IsCall("destroy")))
     => (this' = this /\ pending' = pending)]_vars

\* start() was called twice in a row on a simulator whose loop runs
C4_Witness ==
  /\ kind \in LoopKinds /\ this.canvas
  /\ call.op = "start" /\ call.again
  /\ Truthy(this, RunFlag) /\ Cardinality(pending) = 1

\* every advance so far happened exactly phaseDuration after the one before
Punctual == this.phaseStartTime = advances * phaseDuration

\* C5, as stated: from "cruise" with autoplay enabled and the loop running,
\* when the frame of time 4 x 3000 ms has run the active phase is "landing", and
\* when the frame of time 5 x 3000 ms has run it is "takeoff".
C5_AsStated ==
  /\ (now = 4 * phaseDuration /\ this.lastTime = now /\ Punctual)
       => this.currentPhase = "landing"
  /\ (now = 5 * phaseDuration /\ this.lastTime = now /\ Punctual)
       => this.currentPhase = "takeoff"

\* C5, amended: from "cruise" (index 2) with autoplay enabled and the loop
\* running, the active phase is the one 2 + advances places into the cyclic
\* order; when every advance was on time and the frame of the current time has
\* run, the number of advances is the number of whole phase durations elapsed,
\* so after 4 x 3000 ms the phase is "climb" and after 5 x 3000 ms it is "cruise".
C5_CyclicFromCruise ==
  /\ this.currentPhase = phaseSequence[((2 + advances) % Len(phaseSequence)) + 1]
  /\ (this.lastTime = now /\ Punctual) => advances = now \div phaseDuration
  /\ (now = 4 * phaseDuration /\ this.lastTime = now /\ Punctual)
       => this.currentPhase = "climb"
  /\ (now = 5 * phaseDuration /\ this.lastTime = now /\ Punctual)
       => this.currentPhase = "cruise"

\* five phase durations have elapsed, each advance on time
C5_Witness ==
  /\ now = 5 * phaseDuration /\ this.lastTime = now /\ Punctual
  /\ advances = 5 /\ this.currentPhase = "cruise"

IndexOf(phase) == CHOOSE i \in 1..Len(phaseSequence) : phaseSequence[i] = phase
Successor(phase) == phaseSequence[(IndexOf(phase) % Len(phaseSequence)) + 1]

\* C6: when autoplay advances the phase, the new active phase is the successor,
\* in the cyclic order, of the phase that was active before the advance, also
\* when that phase had been selected with setPhase(name).
C6_AdvanceToSuccessor ==
  [][(advances' = advances + 1 /\ this.currentPhase \in Phases)
     => this'.currentPhase = Successor(this.currentPhase)]_vars

\* the fixed target pose of a phase: targetX, targetY, targetRotation, targetVelocity
TargetPose(phase) ==
  CASE phase = "takeoff" -> <<Pct(canvasWidth, 20), canvasHeight - 80 - 20, 0, 60>>
    [] phase = "climb" -> <<Pct(canvasWidth, 35), Pct(canvasHeight, 40), 0 - 15, 70>>
    [] phase = "cruise" -> <<Pct(canvasWidth, 50), Pct(canvasHeight, 30), 0, 80>>
    [] phase = "descent" -> <<Pct(canvasWidth, 65), Pct(canvasHeight, 50), 5, 65>>
    [] phase = "landing" -> <<Pct(canvasWidth, 80), canvasHeight - 80 - 20, 3, 50>>

\* C7: when setPhase(name) has returned, for name one of the five phase names,
\* name is the active phase, phaseProgress is 0 and the target pose is the tuple
\* of name, whatever the phase and the pose were before.
C7_SetPhaseFixedTarget ==
  (kind = "phases" /\ this.canvas /\ call.op = "setPhase" /\ call.arg \in Phases)
    => /\ this.currentPhase = call.arg
       /\ this.phaseProgress = 0
       /\ <<this.airplane.targetX, this.airplane.targetY,
            this.airplane.targetRotation, this.airplane.targetVelocity>>
            = TargetPose(call.arg)

\* setPhase("landing") was called while the loop was running and the airplane
\* was on its way to another target
C7_Witness ==
  /\ kind = "phases" /\ this.canvas
  /\ call.op = "setPhase" /\ call.arg = "landing" /\ ~call.idle
  /\ this.airplane.x # Pct(canvasWidth, 50)
  /\ this.airplane.x # this.airplane.targetX

\* C8: the active phase of the flight-phases simulator is one of takeoff,
\* climb, cruise, descent, landing in every reachable state.
C8_PhaseInSet ==
  (kind = "phases" /\ this.canvas) => this.currentPhase \in Phases

\* C9: a call of toggleAutoPlay() flips autoPlayEnabled and, when it returns,
\* returns the new value; every other step (start, stop, setPhase, destroy, a
\* frame, a clock tick) leaves autoPlayEnabled as it is.
C9_OnlyToggleChangesAutoPlay ==
  [][(kind = "phases" /\ Has(this, "autoPlayEnabled"))
     => IF IsCall("toggleAutoPlay")
        THEN /\ this'.autoPlayEnabled = ~this.autoPlayEnabled
             /\ ~call'.threw => call'.ret = this'.autoPlayEnabled
        ELSE this'.autoPlayEnabled = this.autoPlayEnabled]_vars

\* autoplay was enabled, stop() was called and then start(): autoplay is enabled
C9_Witness ==
  /\ kind = "phases" /\ this.canvas
  /\ call.op = "start" /\ call.wasStopped /\ call.updates = 1
  /\ this.autoPlayEnabled

\* C10: a start() called on a stopped simulator runs the first update() with
\* the deltaTime elapsed since that start() call, which is 0, and leaves the
\* time of that call as the baseline of the next frame.
C10_RestartBaseline ==
  (kind \in LoopKinds /\ call.op = "start" /\ call.wasStopped /\ call.updates >= 1)
    => /\ call.deltaTime = 0
       /\ ~call.threw => this.lastTime = requestedAt

\* stop() and, later, start() were called, and the first update() has run
C10_Witness ==
  /\ kind \in LoopKinds /\ this.canvas
  /\ call.op = "start" /\ call.wasStopped /\ call.updates = 1
  /\ now > 0 /\ this.lastTime = now

\* C11: with autoplay enabled, the loop running, every requested frame
\* delivered and no call of the page, each of the five phases is the active
\* phase again and again, for ever.
C11_EveryPhaseRecurs ==
  \A phase \in Phases : []<>(this.currentPhase = phase)

\* autoplay has gone round the end of the cycle: from "cruise" to "climb"
C11_Witness ==
  /\ this.autoPlayEnabled /\ this.isPlaying
  /\ this.currentPhase = "climb" /\ advances = 4

\* C12: in the forces simulator, when reset() returns the four forces are 50,
\* the position is the centre of the canvas, the rotation and both velocities
\* are 0; a reset() that follows a reset() leaves the object as it is.
C12_Reset ==
  [][(kind = "forces" /\ this.canvas /\ IsCall("reset"))
     => /\ this'.lift = 50 /\ this'.weight = 50
        /\ this'.thrust = 50 /\ this'.drag = 50
        /\ this'.planeX * 2 = PixelWidth(this) * 1000
        /\ this'.planeY * 2 = PixelHeight(this) * 1000
        /\ this'.planeRotation = 0
        /\ this'.verticalVelocity = 0 /\ this'.horizontalVelocity = 0
        /\ call'.again => this' = this]_vars

\* reset() was called twice in a row while the loop was running
C12_Witness ==
  /\ kind = "forces" /\ this.canvas
  /\ call.op = "reset" /\ call.again /\ ~call.idle

\* the fixed point of v -> 0.95 * (v + NetForce * 0.5 * deltaTime), in thousandths
FixedPoint == 19 * ((NetForce * 5 * FrameMs) \div 10)
\* the steps after which 0.95^n * FixedPoint is below a thousandth
SettledSteps == 200
\* a velocity kept in whole thousandths settles within 1 / (1 - 0.95) of them
Resolution == 20

\* C13: from zero velocity, under a constant net vertical force of 100 and frames
\* 0.016 s apart, the vertical velocity after every one of 10,000 updates is
\* below the fixed point 15.2, never decreases, and is within the resolution of
\* the fixed point once 0.95^n has died out.
C13_DampedConvergence ==
  [][/\ this'.verticalVelocity >= this.verticalVelocity
     /\ this'.verticalVelocity < FixedPoint
     /\ now' >= SettledSteps * FrameMs => FixedPoint - this'.verticalVelocity <= Resolution]_vars

\* the 10,000th update has run
C13_Witness ==
  /\ kind = "forces" /\ this.lift - this.weight = NetForce
  /\ call.op = "animate" /\ call.deltaTime = FrameMs /\ call.updates = 1
  /\ now = MaxSteps * FrameMs /\ requestedAt = now
  /\ this.verticalVelocity > 0

\* C14: in every state of the forces simulator, on a canvas of any size, the
\* position is inside the padded region: 100 <= planeX <= pixelWidth - 100 and
\* 100 <= planeY <= pixelHeight - 100.
C14_InsidePaddedRegion ==
  (kind = "forces" /\ this.canvas)
    => /\ padding * 1000 <= this.planeX
       /\ this.planeX <= (PixelWidth(this) - padding) * 1000
       /\ padding * 1000 <= this.planeY
       /\ this.planeY <= (PixelHeight(this) - padding) * 1000

\* bottom - top of getTubeHeightAt
localHeight(o, x) == NSub(getTubeHeightAt(o, x).bottom, getTubeHeightAt(o, x).top)

\* (this.tubeBottom - this.tubeTop) * pixelHeight
EntranceHeight(o) == Pct(PixelHeight(o), o.tubeBottom - o.tubeTop)

\* C15: at every position of the duct and for every reference speed,
\* entranceHeight * baseVelocity equals localHeight(x) * getVelocityAt(x), to the
\* last digit kept of the velocity.
C15_Continuity ==
  (kind = "bernoulli" /\ this.canvas)
    => \A f \in Positions :
         /\ localHeight(this, At(this, f)) > 0
         /\ EntranceHeight(this) * this.baseVelocity * 100
              - localHeight(this, At(this, f)) * getVelocityAt(this, At(this, f))
              \in 0..(localHeight(this, At(this, f)) - 1)

\* getVelocityAt was called in the throat after the speed was set to 100
C15_Witness ==
  /\ kind = "bernoulli" /\ this.canvas /\ this.baseVelocity = 100
  /\ call.op = "getVelocityAt" /\ call.arg = 50
  /\ call.ret > this.baseVelocity * 100

\* getPressureAt(x) + 0.5 * rho * getVelocityAt(x)^2
StaticPlusDynamic(o, x) ==
  NAdd(getPressureAt(o, x), dynamicPressure(o, getVelocityAt(o, x)))

\* C16: for every reference speed above 0, static plus dynamic pressure is the
\* same at every position as in the throat; the pressure in the throat is
\* strictly below the pressure at the entrance; the pressure at the entrance
\* equals the pressure at the exit, at the ends of the duct and at the mirrored
\* positions 0.15 and 0.85 of the width.
C16_TotalPressureConserved ==
  (kind = "bernoulli" /\ this.canvas /\ this.baseVelocity > 0)
    => /\ \A f \in Positions :
            StaticPlusDynamic(this, At(this, f)) = StaticPlusDynamic(this, At(this, 50))
       /\ getPressureAt(this, At(this, 50)) < getPressureAt(this, At(this, 0))
       /\ getPressureAt(this, At(this, 50)) < getPressureAt(this, At(this, 15))
       /\ getPressureAt(this, At(this, 0)) = getPressureAt(this, At(this, 100))
       /\ getPressureAt(this, At(this, 15)) = getPressureAt(this, At(this, 85))

\* getPressureAt was called at the exit indicator after the speed was set to 100
C16_Witness ==
  /\ kind = "bernoulli" /\ this.canvas /\ this.baseVelocity = 100
  /\ call.op = "getPressureAt" /\ call.arg = 85
  /\ call.ret > getPressureAt(this, At(this, 50))

\* C17 as stated: at baseVelocity = 50 the pressure getPressureAt returns at the
\* entrance is 101325 Pa plus the dynamic pressure 0.5 * 1.225 * 50^2 = 1531.25 Pa,
\* and the pressure in the throat is strictly lower.
C17_AsStated ==
  (kind = "bernoulli" /\ this.canvas /\ this.baseVelocity = 50)
    => /\ getPressureAt(this, At(this, 0)) = this.ATMOSPHERIC_PRESSURE * 100 + 153125
       /\ getPressureAt(this, At(this, 50)) < getPressureAt(this, At(this, 0))

\* C17: at baseVelocity = 50 the total pressure is 101325 Pa plus the dynamic
\* pressure 1531.25 Pa; the pressure getPressureAt returns at the entrance x = 0
\* is 101325 Pa, the dynamic pressure of the entrance being subtracted again;
\* the pressure in the throat is strictly lower.
C17_EntranceIsAtmospheric ==
  (kind = "bernoulli" /\ this.canvas /\ this.baseVelocity = 50)
    => /\ totalPressure(this) = this.ATMOSPHERIC_PRESSURE * 100 + 153125
       /\ getPressureAt(this, At(this, 0)) = this.ATMOSPHERIC_PRESSURE * 100
       /\ getPressureAt(this, At(this, 50)) < getPressureAt(this, At(this, 0))

\* getPressureAt was called at the entrance while the speed was 50
C17_Witness ==
  /\ kind = "bernoulli" /\ this.canvas /\ this.baseVelocity = 50
  /\ call.op = "getPressureAt" /\ call.arg = 0
  /\ call.ret = 10132500

\* calculateLiftCoefficient of the object at another angle
LiftAt(o, alpha) == calculateLiftCoefficient([o EXCEPT !.angleOfAttack = alpha])

Distance(a, b) == IF a >= b THEN a - b ELSE b - a

\* C19: for every airfoil type the lift coefficient is continuous at -10, 15 and
\* 20 degrees: a thousandth of a degree below and above the breakpoint it is
\* within 0.00016 of the value at the breakpoint (the steepest slope of the
\* curve is 0.16 per degree).
C19_ContinuousAtBreakpoints ==
  (kind = "airfoil" /\ this.canvas)
    => \A b \in Breakpoints :
         /\ Distance(LiftAt(this, b), LiftAt(this, b - 1)) <= 160
         /\ Distance(LiftAt(this, b + 1), LiftAt(this, b)) <= 160

\* the peak value P, reached at 15 degrees
Peak(o) == LiftAt(o, 15000)

InStall(o) == o.angleOfAttack > 15000 /\ o.angleOfAttack <= 20000

\* C20 as stated: for 15 < alpha <= 20 the lift coefficient is
\* P - 0.8 * P * (alpha - 15) / 5, which is 0.2 * P at 20 degrees.
C20_AsStated ==
  (kind = "airfoil" /\ this.canvas /\ InStall(this))
    => 50 * calculateLiftCoefficient(this)
         = 50 * Peak(this) - TDiv(Peak(this), 1000) * 8 * (this.angleOfAttack - 15000)

\* C20: for 15 < alpha <= 20 the lift coefficient is P - 0.8 * (alpha - 15) / 5:
\* it decays linearly from the peak P by up to 0.8, which is P - 0.8 at 20 degrees.
C20_DecaysByFixedAmount ==
  (kind = "airfoil" /\ this.canvas /\ InStall(this))
    => /\ calculateLiftCoefficient(this) = Peak(this) - 160 * (this.angleOfAttack - 15000)
       /\ call.op = "calculateLiftCoefficient" => call.ret = calculateLiftCoefficient(this)
       /\ this.angleOfAttack = 20000 => calculateLiftCoefficient(this) = Peak(this) - 800000

\* the lift coefficient was calculated at 20 degrees for an airfoil without camber
C20_Witness ==
  /\ kind = "airfoil" /\ this.canvas
  /\ this.angleOfAttack = 20000 /\ this.airfoilType = "symmetric"
  /\ call.op = "calculateLiftCoefficient" /\ call.ret = 700000

\* C18: whatever values the setters were given, no division of update() or
\* draw() has a zero denominator: when either has run, the reference speed that
\* scales the particle speed and the velocity arrows is not 0, the channel height
\* is not 0 anywhere, and the drag coefficient of the L/D ratio is not 0.
C18_NoZeroDenominator ==
  /\ (kind = "bernoulli" /\ this.canvas /\ (call.updates > 0 \/ call.draws > 0))
       => /\ this.baseVelocity # 0
          /\ \A f \in Positions : localHeight(this, At(this, f)) # 0
          /\ \A i \in 1..Len(this.particles) : ~IsNaN(this.particles[i].x)
  /\ (kind = "airfoil" /\ this.canvas) => calculateDragCoefficient(this) # 0

\* 0.2 for the cambered type, 0 for the others
BaseOffset(o) == IF o.airfoilType = "cambered" THEN 200000 ELSE 0

\* C21: outside 15 < alpha <= 20 the lift coefficient is -0.5 for alpha < -10,
\* baseOffset + 0.1 * alpha for -10 <= alpha <= 15 and 0.5 for alpha > 20, with
\* baseOffset 0.2 for the cambered type and 0 for the symmetric type; at alpha = 0
\* the cambered type gives 0.2 and the symmetric type 0.
C21_DocumentedRule ==
  (kind = "airfoil" /\ this.canvas /\ ~InStall(this))
    => /\ calculateLiftCoefficient(this)
            = (IF this.angleOfAttack < 0 - 10000 THEN 0 - 500000
               ELSE IF this.angleOfAttack <= 15000
               THEN BaseOffset(this) + 100 * this.angleOfAttack
               ELSE 500000)
       /\ (this.angleOfAttack = 0 /\ this.airfoilType = "cambered")
            => calculateLiftCoefficient(this) = 200000
       /\ (this.angleOfAttack = 0 /\ this.airfoilType = "symmetric")
            => calculateLiftCoefficient(this) = 0
       /\ call.op = "calculateLiftCoefficient" => call.ret = calculateLiftCoefficient(this)

\* the lift coefficient of the cambered airfoil was calculated at 0 degrees
C21_Witness ==
  /\ kind = "airfoil" /\ this.canvas
  /\ this.angleOfAttack = 0 /\ this.airfoilType = "cambered"
  /\ call.op = "calculateLiftCoefficient" /\ call.ret = 200000

\* C22: when setControls(a, e, r) has run, the stored deflections are a, e, r and
\* rollAngle = -0.8 * a, pitchAngle = -0.5 * e, yawAngle = 0.6 * r (in tenths:
\* -8 * a, -5 * e, 6 * r); setControls(10, 0, 0) gives rollAngle = -8 and pitch
\* and yaw 0.
C22_SetControlsGains ==
  [][(kind = "controls" /\ IsCall("setControls"))
     => /\ this'.aileronDeflection = call'.arg[1]
        /\ this'.elevatorDeflection = call'.arg[2]
        /\ this'.rudderDeflection = call'.arg[3]
        /\ this'.rollAngle = (0 - 8) * call'.arg[1]
        /\ this'.pitchAngle = (0 - 5) * call'.arg[2]
        /\ this'.yawAngle = 6 * call'.arg[3]
        /\ call'.arg = <<10, 0, 0>>
             => this'.rollAngle = 0 - 80 /\ this'.pitchAngle = 0 /\ this'.yawAngle = 0]_vars

\* setControls(10, 0, 0) has run on an object with a canvas
C22_Witness ==
  /\ kind = "controls" /\ this.canvas
  /\ call.op = "setControls" /\ call.arg = <<10, 0, 0>> /\ ~call.threw
  /\ this.rollAngle = 0 - 80

\* the documented defaults of the options of a simulator
Defaults ==
  CASE kind = "bernoulli" -> [baseVelocity |-> 50, particleCount |-> 150]
    [] kind = "forces" -> [lift |-> 50, weight |-> 50, thrust |-> 50, drag |-> 50]
    [] kind = "airfoil" -> [angleOfAttack |-> 5000, airfoilType |-> "cambered"]

\* C23: a constructor takes the value supplied in the options for a parameter
\* and the documented default only when the parameter is not supplied; a
\* supplied 0 is kept as 0.
C23_SuppliedOptionsKept ==
  (kind \in OptionKinds /\ this.canvas /\ call.op = "constructor")
    => \A f \in DOMAIN Defaults :
         this[f] = IF f \in DOMAIN call.arg THEN call.arg[f] ELSE Defaults[f]

\* every particle is in the duct: x in [0, pixelWidth] and y between the top and
\* the bottom of getTubeHeightAt at x
InDuct(o) ==
  \A i \in 1..Len(o.particles) :
    /\ ~IsNaN(o.particles[i].x) /\ ~IsNaN(o.particles[i].y)
    /\ o.particles[i].x >= 0 /\ o.particles[i].x <= PixelWidth(o)
    /\ o.particles[i].y >= getTubeHeightAt(o, o.particles[i].x * 100).top
    /\ o.particles[i].y <= getTubeHeightAt(o, o.particles[i].x * 100).bottom

\* C24: in the Bernoulli simulator the particles are in the duct after
\* construction, and an update() with a reference speed above 0, whatever the
\* time elapsed, leaves them in the duct; there are particleCount particles from
\* construction on, and only destroy() changes their number.
C24_ParticlesStayInDuct ==
  /\ (kind = "bernoulli" /\ this.canvas)
       => (InDuct(this) /\ Len(this.particles) = this.particleCount)
  /\ [][(kind = "bernoulli" /\ this.canvas)
         => /\ (this.baseVelocity > 0 /\ InDuct(this)) => InDuct(this')
            /\ ~IsCall("destroy") => Len(this'.particles) = Len(this.particles)]_vars

\* an update() has moved a particle across the right edge and back to the left
C24_Witness ==
  /\ kind = "bernoulli" /\ this.canvas /\ this.baseVelocity > 0
  /\ call.op = "animate" /\ call.updates = 1 /\ call.deltaTime > 0
  /\ Len(this.particles) = this.particleCount
  /\ this.particles[1].x = 0
  /\ InDuct(this)

\* the lateral positions a wrap can draw: top + Math.random() * tubeHeight at x = 0
Redrawn(o) ==
  {getTubeHeightAt(o, 0).top
     + Pct(getTubeHeightAt(o, 0).bottom - getTubeHeightAt(o, 0).top, rnd) : rnd \in Randoms}

\* C25: when an update() takes a particle past the right edge, the particle is at
\* x = 0 when the update() ends and its lateral position is the one drawn at
\* random within the height of the channel at the left edge.
C25_WrapRedrawsLateralPosition ==
  [][(kind = "bernoulli" /\ this.canvas /\ this.baseVelocity > 0
        /\ call'.op = "animate" /\ call'.updates = 1)
     => \A i \in 1..Len(this.particles) :
          (this.particles[i].x # 0 /\ this'.particles[i].x = 0)
            => this'.particles[i].y \in Redrawn(this)]_vars

\* C26: in every frame callback of every simulator update() and draw() run at
\* most once; draw() runs only after update() has run to completion, the next
\* frame callback is requested only after draw() has returned, and a callback
\* of a running loop in which nothing throws does all three.
C26_UpdateThenDrawThenRequest ==
  [][(call'.op = "animate" /\ calls' = calls /\ now' = now)
     => /\ call'.updates <= 1 /\ call'.draws <= 1
        /\ call'.draws = 1 => call'.updates = 1
        /\ requestedAt' # requestedAt => call'.draws = 1
        /\ (Truthy(this, RunFlag) /\ ~call'.threw)
             => (call'.updates = 1 /\ call'.draws = 1 /\ requestedAt' = now)]_vars

\* a frame callback has updated, drawn and requested the next one
C26_Witness ==
  /\ call.op = "animate" /\ call.deltaTime > 0
  /\ call.updates = 1 /\ call.draws = 1 /\ ~call.threw
  /\ requestedAt = now /\ pending # {}

\* C27: whatever the order of start(), stop(), destroy(), toggleAutoPlay(),
\* the setters and the frame callbacks, a simulator has at most one frame
\* callback pending, and it is the one whose handle the object holds.
C27_OneCallbackPending ==
  /\ Cardinality(pending) <= 1
  /\ pending # {} => pending = {this.animationFrame}

\* the loop was started again after a stop() and has one callback pending
C27_Witness ==
  /\ call.op = "start" /\ call.wasStopped /\ ~call.threw
  /\ Truthy(this, RunFlag)
  /\ Cardinality(pending) = 1

\* C28: with autoplay enabled, the time during which the loop is stopped does
\* not count toward the phase duration: a start() that follows a stop() made
\* when the active phase had run for no time does not advance the phase.
C28_PausedTimeNotCounted ==
  [][(kind = "phases" /\ calls = 2 /\ IsCall("start") /\ this.autoPlayEnabled)
     => (this'.currentPhase = this.currentPhase /\ advances' = advances)]_vars

\* C29: in every state of the control-surfaces simulator, the state right after
\* a construction with deflections other than 0 included, rollAngle =
\* -0.8 * aileronDeflection, pitchAngle = -0.5 * elevatorDeflection and yawAngle
\* = 0.6 * rudderDeflection (in tenths: -8, -5 and 6 times the deflection).
C29_IndicatorsAgree ==
  (kind = "controls" /\ this.canvas)
    => /\ this.rollAngle = (0 - 8) * this.aileronDeflection
       /\ this.pitchAngle = (0 - 5) * this.elevatorDeflection
       /\ this.yawAngle = 6 * this.rudderDeflection

\* C30: after any clicks on the play and pause buttons, the play button shows
\* 'Stop Auto-Play' exactly when autoPlayEnabled is true.
C30_ButtonShowsAutoPlay ==
  (kind = "phases" /\ calls > 0)
    => (playButton = "Stop Auto-Play" <=> this.autoPlayEnabled)

====
